---- MODULE Spec2Model ----
(***************************************************************************)
(* LeafWise API: the identification pipeline                               *)
(*   IdentificationService.identify  (identification.service.ts)           *)
(*   AIRouterService.identifyPlant   (ai-router.service.ts)                *)
(*   PlantIdProvider.identify        (plant-id.provider.ts)                *)
(*   GeminiProvider.identifyPlant    (gemini.provider.ts)                  *)
(*   StorageService.uploadPhoto      (storage.service.ts)                  *)
(* Strings the code transforms (scientific names, common names) are        *)
(* sequences of one-character strings, so that toLowerCase, trim and the   *)
(* whitespace collapse are computed as the code computes them.  Numbers    *)
(* with a fraction (confidence, cost) are integers in 1/100 or 1/1000.     *)
(* Image strings are far too long to be spelled out: an image is the      *)
(* sequence of its comma-separated pieces, each with its length.  The      *)
(* clock counts milliseconds.                                              *)
(***************************************************************************)
EXTENDS Integers, Sequences, FiniteSets, Bags, TLC

\* ------------------------------------------------------------------ bounds
NumCalls == 2

\* the requests a call slot stops taking new ones at
MaxHits == 4

\* the clock runs from 0 to MaxNow milliseconds
MaxNow == 2

Calls == 1..NumCalls

Users == {"u1", "u2"}

NULL == "null"

\* no object (null / undefined) where the code holds an object
Nil == [nil |-> TRUE]

\* a null species id
NullId == 0

\* --------------------------------------------------------------- constants
\* rxjs retry({ count: 3 }): the number of re-subscriptions after an error
RetryCount == 3

\* usage_logs.cost, in 1/1000 USD
PlantIdCost == 30

GeminiCost == 3

\* ------------------------------------------------------------ string model
Lower(ch) ==
  CASE ch = "A" -> "a"
    [] ch = "B" -> "b"
    [] ch = "C" -> "c"
    [] ch = "P" -> "p"
    [] ch = "Q" -> "q"
    [] ch = "R" -> "r"
    [] ch = "U" -> "u"
    [] OTHER -> ch

toLowerCase(s) == [i \in 1..Len(s) |-> Lower(s[i])]

IsSpace(ch) == ch \in {" ", "\t"}

RECURSIVE trimStart(_)
trimStart(s) ==
  IF s = <<>> THEN <<>>
  ELSE IF IsSpace(Head(s)) THEN trimStart(Tail(s)) ELSE s

RECURSIVE trimEnd(_)
trimEnd(s) ==
  IF s = <<>> THEN <<>>
  ELSE IF IsSpace(s[Len(s)]) THEN trimEnd(SubSeq(s, 1, Len(s) - 1)) ELSE s

trim(s) == trimEnd(trimStart(s))

\* s.replace(/\s+/g, ' ')
RECURSIVE collapseSpaces(_)
collapseSpaces(s) ==
  IF s = <<>> THEN <<>>
  ELSE IF IsSpace(Head(s))
       THEN <<" ">> \o collapseSpaces(trimStart(s))
       ELSE <<Head(s)>> \o collapseSpaces(Tail(s))

normalizeScientificName(name) == collapseSpaces(trim(toLowerCase(name)))

\* ---------------------------------------------------------- provider inputs
\* What one HTTP attempt against Plant.id can end in.  status = 0 stands for
\* "no response" (error.response is undefined); code is the axios error code;
\* rxjsTimeout marks the TimeoutError raised by the timeout() operator, which
\* carries neither a response nor a code.
HttpError(status, code, rx) == [status |-> status, code |-> code, rxjsTimeout |-> rx]

Http401 == HttpError(401, "ERR_BAD_REQUEST", FALSE)

Http403 == HttpError(403, "ERR_BAD_REQUEST", FALSE)

Http429 == HttpError(429, "ERR_BAD_REQUEST", FALSE)

Http503 == HttpError(503, "ERR_BAD_RESPONSE", FALSE)

SocketTimeout == HttpError(0, "ETIMEDOUT", FALSE)

LocalTimeout == HttpError(0, "none", TRUE)

HttpErrors == {Http401, Http403, Http429, Http503, SocketTimeout, LocalTimeout}

NameAb == <<"A", " ", "b">>

NameAbLower == <<"a", " ", "b">>

NameAbSpaced == <<" ", "a", " ", "\t", "B", " ">>

NameC == <<"C">>

UnknownName == <<"U", "n", "k", "n", "o", "w", "n">>

CommonP == <<"P">>

CommonPLower == <<"p">>

CommonQ == <<"Q">>

CommonQLower == <<"q">>

CommonR == <<"R">>

Suggestion(name, common, prob) ==
  [name |-> name, common_names |-> common, probability |-> prob]

\* An image string of the request body, cut at its commas: one record per
\* piece, data = the piece starts with 'data:', len = its length in characters.
Piece(data, len) == [data |-> data, len |-> len]

\* what JavaScript yields for an array index that is out of range; a string
\* has one piece at least
undefined == <<>>

RECURSIVE SumLen(_)
SumLen(s) == IF s = <<>> THEN 0 ELSE Head(s).len + SumLen(Tail(s))

\* String.prototype.length of the joined pieces
length(s) == SumLen(s) + Len(s) - 1

\* the largest base64 length whose estimate is still 10 MiB
FitsLen == 13981013

Small == << Piece(FALSE, 8) >>
Fits == << Piece(FALSE, FitsLen) >>
TooLarge == << Piece(FALSE, FitsLen + 1) >>
UriFits == << Piece(TRUE, 22), Piece(FALSE, FitsLen) >>
UriTooLarge == << Piece(TRUE, 22), Piece(FALSE, FitsLen + 1) >>
UriNoComma == << Piece(TRUE, 22) >>
UriNested == << Piece(TRUE, 22), Piece(TRUE, 9), Piece(FALSE, 8) >>

Images == {Small, Fits, TooLarge, UriFits, UriTooLarge, UriNoComma, UriNested}

MaxImages == 2

\* dto.images as the validation pipe lets it through: one image at least,
\* every image a non-empty string
ImageLists == UNION { [1..n -> Images] : n \in 1..MaxImages }

\* result.classification.suggestions of a Plant.id 200 response
PlantIdPayloads ==
  { <<>>,
    << Suggestion(NameAb, <<CommonP>>, 93) >>,
    << Suggestion(NameAbSpaced, <<CommonPLower, CommonQ, CommonQLower>>, 55),
       Suggestion(NameC, <<>>, 30), Suggestion(NameAb, <<CommonP>>, 5),
       Suggestion(NameC, <<CommonQ>>, 4), Suggestion(NameAbLower, <<>>, 3),
       Suggestion(UnknownName, <<>>, 2) >>,
    << Suggestion(NameC, <<CommonQ>>, 70), Suggestion(NameAb, <<>>, 20) >> }

\* What model.generateContent can end in: a thrown error, described by the
\* two substrings wrapError looks for in its message, or a response text.
GeminiErrorMsg(quotaOrRate, apiKeyOrAuth) ==
  [quotaOrRate |-> quotaOrRate, apiKeyOrAuth |-> apiKeyOrAuth]

GeminiErrors == { GeminiErrorMsg(q, a) : q \in BOOLEAN, a \in BOOLEAN }

GeminiJson(name, common, conf) ==
  [json |-> TRUE, scientificName |-> name, commonNames |-> common, confidence |-> conf]

GeminiGarbage == [json |-> FALSE]

\* confidence in 1/100; 0 also stands for a missing field (parsed.confidence || 0)
GeminiTexts ==
  { GeminiGarbage,
    GeminiJson(NameAbLower, <<CommonP, CommonR>>, 55),
    GeminiJson(NameC, <<>>, 150),
    GeminiJson(<<>>, <<CommonQ>>, 0) }

\* ------------------------------------------------------- Plant.id gateway
PlantIdError(code, isRetryable) ==
  [name |-> "PlantIdError", code |-> code, isRetryable |-> isRetryable]

\* PlantIdProvider.wrapError for an error that is not already a PlantIdError
wrapError(error) ==
  IF error.status = 401 THEN PlantIdError("AUTH_ERROR", FALSE)
  ELSE IF error.status = 429 THEN PlantIdError("RATE_LIMIT", TRUE)
  ELSE IF error.status >= 500 THEN PlantIdError("SERVICE_ERROR", TRUE)
  ELSE IF error.code \in {"ECONNABORTED", "ETIMEDOUT"} THEN PlantIdError("TIMEOUT", TRUE)
  ELSE PlantIdError("UNKNOWN_ERROR", FALSE)

\* suggestions.slice(1, 5)
sliceSimilar(suggestions) ==
  SubSeq(suggestions, 2, IF Len(suggestions) < 5 THEN Len(suggestions) ELSE 5)

mapSimilar(s) ==
  [scientificName |-> s.name,
   commonName |-> IF s.common_names # <<>> THEN s.common_names[1] ELSE s.name,
   confidence |-> s.probability]

\* PlantIdProvider.mapIdentificationResponse, for a non-empty suggestion list
\* (the empty list throws NO_MATCH, see PlantIdAttempt); family and genus are
\* copied through unexamined and are left out of the records.
mapIdentificationResponse(suggestions) ==
  [species |-> [scientificName |-> suggestions[1].name,
                commonNames |-> suggestions[1].common_names,
                confidence |-> suggestions[1].probability],
   similarSpecies |-> [i \in 1..Len(sliceSimilar(suggestions)) |->
                         mapSimilar(sliceSimilar(suggestions)[i])]]

\* --------------------------------------------------------- Gemini gateway
GeminiError(code, isRetryable) ==
  [name |-> "GeminiError", code |-> code, isRetryable |-> isRetryable]

geminiWrapError(error) ==
  IF error.quotaOrRate THEN GeminiError("RATE_LIMIT", TRUE)
  ELSE IF error.apiKeyOrAuth THEN GeminiError("AUTH_ERROR", FALSE)
  ELSE GeminiError("UNKNOWN_ERROR", TRUE)

clamp01(conf) == IF conf < 0 THEN 0 ELSE IF conf > 100 THEN 100 ELSE conf

\* GeminiProvider.parseResponse
parseResponse(text) ==
  IF text.json
  THEN [species |-> [scientificName |-> IF text.scientificName # <<>>
                                        THEN text.scientificName ELSE UnknownName,
                     commonNames |-> text.commonNames,
                     confidence |-> clamp01(text.confidence)],
        similarSpecies |-> <<>>]
  ELSE [species |-> [scientificName |-> UnknownName,
                     commonNames |-> <<>>,
                     confidence |-> 0],
        similarSpecies |-> <<>>]

\* ----------------------------------------------------------------- Router
mapPlantIdResult(result) ==
  [species |-> result.species,
   similarSpecies |-> result.similarSpecies,
   isFallback |-> FALSE,
   provider |-> "plant-id"]

\* mutant: the fallback result is not marked
mapGeminiResultUnmarked(result) ==
  [species |-> result.species,
   similarSpecies |-> result.similarSpecies,
   isFallback |-> FALSE,
   provider |-> "gemini"]

mapGeminiResult(result) ==
  [species |-> result.species,
   similarSpecies |-> result.similarSpecies,
   isFallback |-> TRUE,
   provider |-> "gemini"]

\* the identification chain, in the order identifyPlant() tries it
Chain == <<"plant-id", "gemini">>

\* mutant: the cause is dropped
AIRouterErrorNoCause(attempted, cause) ==
  [name |-> "AIRouterError", attemptedProviders |-> attempted, cause |-> Nil]

AIRouterError(attempted, cause) ==
  [name |-> "AIRouterError", attemptedProviders |-> attempted, cause |-> cause]

\* mutant: the row is written for no user
UsageRowNoUser(userId, action, provider, success, errorCode) ==
  [userId |-> NULL, action |-> action, provider |-> provider,
   success |-> success, errorCode |-> errorCode,
   cost |-> IF provider = "plant-id" THEN PlantIdCost ELSE GeminiCost,
   endpoint |-> "/api/v1/identify"]

\* the row logUsage hands to usageLog.create (latencyMs is wall-clock and
\* left out)
UsageRow(userId, action, provider, success, errorCode) ==
  [userId |-> userId, action |-> action, provider |-> provider,
   success |-> success, errorCode |-> errorCode,
   cost |-> IF provider = "plant-id" THEN PlantIdCost ELSE GeminiCost,
   endpoint |-> "/api/v1/identify"]

\* -------------------------------------------------------- Species resolver
RECURSIVE seqFilterNew(_, _)
\* newData.commonNames.filter((n) => !existingNames.has(n.toLowerCase()))
seqFilterNew(names, existingLower) ==
  IF names = <<>> THEN <<>>
  ELSE IF toLowerCase(Head(names)) \in existingLower
       THEN seqFilterNew(Tail(names), existingLower)
       ELSE <<Head(names)>> \o seqFilterNew(Tail(names), existingLower)

\* mutant: the names of the provider are appended without looking at the
\* names the row has
getSpeciesUpdatesAppendsAll(existing, newData) ==
  LET newNames == newData.commonNames
  IN  (IF existing.plantIdSpeciesId = NULL /\ newData.plantIdSpeciesId # NULL
       THEN {<<"plantIdSpeciesId", newData.plantIdSpeciesId>>} ELSE {})
      \cup
      (IF existing.description = NULL /\ newData.description # NULL
       THEN {<<"description", newData.description>>} ELSE {})
      \cup
      (IF existing.toxicity = NULL /\ newData.toxicity # NULL
       THEN {<<"toxicity", newData.toxicity>>} ELSE {})
      \cup
      (IF Len(newData.commonNames) > 0 /\ Len(newNames) > 0
       THEN {<<"commonNames", existing.commonNames \o newNames>>} ELSE {})

\* IdentificationService.getSpeciesUpdates: the set of (field, value) pairs to
\* write.  The Router's unified result carries no plantIdSpeciesId,
\* description or toxicity, so newData's are undefined (NULL here).
getSpeciesUpdates(existing, newData) ==
  LET existingNames == { toLowerCase(existing.commonNames[i]) :
                           i \in 1..Len(existing.commonNames) }
      newNames == seqFilterNew(newData.commonNames, existingNames)
  IN  (IF existing.plantIdSpeciesId = NULL /\ newData.plantIdSpeciesId # NULL
       THEN {<<"plantIdSpeciesId", newData.plantIdSpeciesId>>} ELSE {})
      \cup
      (IF existing.description = NULL /\ newData.description # NULL
       THEN {<<"description", newData.description>>} ELSE {})
      \cup
      (IF existing.toxicity = NULL /\ newData.toxicity # NULL
       THEN {<<"toxicity", newData.toxicity>>} ELSE {})
      \cup
      (IF Len(newData.commonNames) > 0 /\ Len(newNames) > 0
       THEN {<<"commonNames", existing.commonNames \o newNames>>} ELSE {})

\* the species part of a UnifiedIdentificationResult as findOrCreateSpecies
\* reads it
speciesData(result) ==
  [scientificName |-> result.species.scientificName,
   commonNames |-> result.species.commonNames,
   plantIdSpeciesId |-> NULL, description |-> NULL, toxicity |-> NULL]

SpeciesRow(id, name, common) ==
  [id |-> id, scientificName |-> name, commonNames |-> common,
   plantIdSpeciesId |-> NULL, description |-> NULL, toxicity |-> NULL]

applyUpdates(row, updates) ==
  [f \in DOMAIN row |->
     IF \E u \in updates : u[1] = f
     THEN (CHOOSE u \in updates : u[1] = f)[2]
     ELSE row[f]]

\* ------------------------------------------------------------------ state
VARIABLES
  pc,                 \* identify(): "idle", "joining", "update", "create", "done", "closed"
  userId,             \* identify(): the caller
  rpc,                \* identifyPlant(): position of the Router sub-task
  upc,                \* uploadImages(): position of the upload sub-task
  soFar,              \* rxjs retry(): re-subscriptions made so far
  attempts,           \* requests the running gateway has issued in this call
  lastRaw,            \* the error the last request of the gateway ended in
  onlyRetryable,      \* every request so far failed with an error the gateway classifies retryable
  providerOut,        \* what the gateway returned or threw
  attemptedProviders, \* identifyPlant(): attemptedProviders
  lastError,          \* identifyPlant(): lastError
  routerOut,          \* what identifyPlant() returned or threw
  photoUrls,          \* what uploadImages() returned
  existing,           \* findOrCreateSpecies(): existingSpecies
  response,           \* what identify() returned or threw
  logErrors,          \* 'Failed to log usage' lines the call wrote to the logger
  species,            \* table species
  usageLogs,          \* table usage_logs, a bag of rows
  images,             \* identify(): dto.images
  hits,               \* per user, the times at which the guards let a request through
  now,                \* Date.now(), in milliseconds
  tempId,             \* uploadImages(): the time in tempId
  filename,           \* uploadPhoto(): filename of the upload in flight
  storage,            \* the bucket: the keys it holds
  uploadError,        \* uploadImages(): the request whose error the catch logged
  speciesError,       \* findOrCreateSpecies(): the catch logged 'Failed to find/create species'
  plants,             \* table plants
  plantPhotos,        \* table plant_photos
  creates,            \* PlantsService.create(): per request, its position and locals
  read,               \* what the last findOne() or findAll() returned or threw
  authAccounts,       \* the accounts the auth provider holds
  users,              \* table users
  signUps,            \* AuthService.signUp(): per request, its position and locals
  signedIn            \* what the last signIn() returned or threw

vars == <<pc, userId, rpc, upc, soFar, attempts, lastRaw, onlyRetryable, providerOut,
          attemptedProviders, lastError, routerOut, photoUrls, existing, response,
          logErrors, species, usageLogs, images, hits, now, tempId, filename, storage,
          uploadError, speciesError, plants, plantPhotos, creates, read,
          authAccounts, users, signUps, signedIn>>

gatewayVars == <<soFar, attempts, lastRaw, onlyRetryable, providerOut>>

entryVars == <<images, hits>>

bucketVars == <<now, tempId, filename, storage, uploadError>>

gardenVars == <<plants, plantPhotos, creates, read>>

accountVars == <<authAccounts, users, signUps, signedIn>>

\* everything the identification pipeline reads or writes
pipelineVars == <<pc, userId, rpc, upc, gatewayVars, attemptedProviders, lastError,
                  routerOut, photoUrls, existing, response, logErrors, species,
                  usageLogs, entryVars, bucketVars, speciesError>>

\* bounds of the plants and sign-up requests followed
NumCreates == 2

NumSignUps == 2

Creates == 1..NumCreates

SignUps == 1..NumSignUps

Emails == [u1 |-> "a@leafwise.test", u2 |-> "b@leafwise.test"]

\* the account of the auth provider and the row of table users for auth id u
Account(u, email) == [id |-> u, email |-> email]

\* a request slot before its request has arrived
IdleCreate ==
  [pc |-> "idle", userId |-> NULL, dto |-> Nil, species |-> Nil,
   nickname |-> undefined, result |-> Nil]

IdleSignUp == [pc |-> "idle", email |-> NULL, id |-> NULL, result |-> Nil]

IdleSignIn == [pc |-> "idle", email |-> NULL, id |-> NULL, result |-> Nil]

\* every user of the model has signed up
Registered ==
  /\ authAccounts = { Account(u, Emails[u]) : u \in Users }
  /\ users = { Account(u, Emails[u]) : u \in Users }

\* prisma/seed.ts: the catalogue rows, scientific names capitalised
SeedSpecies == { SpeciesRow(1, NameAb, <<CommonP>>) }

\* the locals of the calls before any request has arrived, the clock at 0 and
\* the bucket empty
InitCalls ==
  /\ pc = [c \in Calls |-> "idle"]
  /\ userId = [c \in Calls |-> NULL]
  /\ rpc = [c \in Calls |-> "none"]
  /\ upc = [c \in Calls |-> "none"]
  /\ soFar = [c \in Calls |-> 0]
  /\ attempts = [c \in Calls |-> 0]
  /\ lastRaw = [c \in Calls |-> Nil]
  /\ onlyRetryable = [c \in Calls |-> TRUE]
  /\ providerOut = [c \in Calls |-> Nil]
  /\ attemptedProviders = [c \in Calls |-> <<>>]
  /\ lastError = [c \in Calls |-> Nil]
  /\ routerOut = [c \in Calls |-> Nil]
  /\ photoUrls = [c \in Calls |-> Nil]
  /\ existing = [c \in Calls |-> Nil]
  /\ response = [c \in Calls |-> Nil]
  /\ logErrors = [c \in Calls |-> 0]
  /\ images = [c \in Calls |-> <<>>]
  /\ hits = [u \in Users |-> <<>>]
  /\ now = 0
  /\ tempId = [c \in Calls |-> 0]
  /\ filename = [c \in Calls |-> Nil]
  /\ storage = {}
  /\ uploadError = [c \in Calls |-> "none"]
  /\ speciesError = [c \in Calls |-> FALSE]
  /\ plants = {}
  /\ plantPhotos = {}
  /\ creates = [q \in Creates |-> IdleCreate]
  /\ read = Nil
  /\ signUps = [r \in SignUps |-> IdleSignUp]
  /\ signedIn = IdleSignIn

Init ==
  /\ InitCalls
  /\ Registered
  /\ species \in {{}, SeedSpecies}
  /\ usageLogs = EmptyBag

\* ------------------------------------------------------- identify(): entry
MAX_IMAGE_SIZE_BYTES == 10 * 1024 * 1024

\* IdentificationService.normalizeBase64: imageBase64.split(',')[1] for a
\* string that starts with 'data:', the string itself otherwise
normalizeBase64(imageBase64) ==
  IF Head(imageBase64).data
  THEN IF Len(imageBase64) >= 2 THEN << imageBase64[2] >> ELSE undefined
  ELSE imageBase64

\* Math.ceil(n * 0.75)
estimatedBytes(n) == (3 * n + 3) \div 4

\* validateImageSize: how the call on one image ends; reading .length of
\* undefined is a TypeError
validateImageSize(imageBase64) ==
  LET base64Data == normalizeBase64(imageBase64)
  IN  IF base64Data = undefined THEN "TypeError"
      ELSE IF estimatedBytes(length(base64Data)) > MAX_IMAGE_SIZE_BYTES
      THEN "IMAGE_TOO_LARGE"
      ELSE "ok"

\* dto.images.forEach(validateImageSize): the position of the first image
\* whose validation throws, 0 when none does
firstThrow(imgs) ==
  LET bad == { i \in 1..Len(imgs) : validateImageSize(imgs[i]) # "ok" }
  IN  IF bad = {} THEN 0 ELSE CHOOSE i \in bad : \A j \in bad : i <= j

\* BadRequestException of validateImageSize; imageIndex counts from 0
ImageTooLarge(index) ==
  [status |-> 400, code |-> "IMAGE_TOO_LARGE", imageIndex |-> index - 1]

\* an exception that is no HttpException leaves the framework as a 500
UnhandledError == [status |-> 500, code |-> "INTERNAL_SERVER_ERROR"]

\* `${userId}/${plantId}/${type}-${Date.now()}.jpg`, type = 'identification'
Filename(u, temp, t) == [userId |-> u, tempId |-> temp, timestamp |-> t]

\* The controller's guards let the request through and identify() runs up to
\* the Promise.all: the images are validated in order; if none throws, both
\* sub-tasks are started, the Router pushes 'plant-id' before its first await
\* and uploadImages() reads the clock for tempId and for the first filename.
Identify(c, u, imgs) ==
  /\ pc[c] = "idle"
  /\ userId' = [userId EXCEPT ![c] = u]
  /\ images' = [images EXCEPT ![c] = imgs]
  /\ hits' = [hits EXCEPT ![u] = Append(@, now)]
  /\ IF firstThrow(imgs) # 0
     THEN /\ pc' = [pc EXCEPT ![c] = "done"]
          /\ response' = [response EXCEPT ![c] =
                            IF validateImageSize(imgs[firstThrow(imgs)]) = "TypeError"
                            THEN UnhandledError
                            ELSE ImageTooLarge(firstThrow(imgs))]
          /\ UNCHANGED <<rpc, upc, attemptedProviders, tempId, filename>>
     ELSE /\ pc' = [pc EXCEPT ![c] = "joining"]
          /\ rpc' = [rpc EXCEPT ![c] = "plantid"]
          /\ upc' = [upc EXCEPT ![c] = "uploading"]
          /\ attemptedProviders' = [attemptedProviders EXCEPT ![c] = <<Chain[1]>>]
          /\ tempId' = [tempId EXCEPT ![c] = now]
          /\ filename' = [filename EXCEPT ![c] = Filename(u, now, now)]
          /\ UNCHANGED response
  /\ UNCHANGED <<gatewayVars, lastError, routerOut, photoUrls, existing,
                 logErrors, species, usageLogs, now, storage, uploadError, speciesError>>
  /\ UNCHANGED <<gardenVars, accountVars>>

\* a millisecond passes
Tick ==
  /\ now < MaxNow
  /\ now' = now + 1
  /\ UNCHANGED <<pc, userId, rpc, upc, gatewayVars, attemptedProviders, lastError,
                 routerOut, photoUrls, existing, response, logErrors, species,
                 usageLogs, images, hits, tempId, filename, storage, uploadError,
                 speciesError>>
  /\ UNCHANGED <<gardenVars, accountVars>>

\* ------------------------------------------------------- Plant.id gateway
\* One request of callApiWithRetry ends in an error: retry() re-subscribes
\* while its counter is below count, whatever the error is; otherwise the
\* error reaches identify()'s catch and is wrapped.
PlantIdFail(c, error) ==
  /\ rpc[c] = "plantid"
  /\ attempts' = [attempts EXCEPT ![c] = @ + 1]
  /\ lastRaw' = [lastRaw EXCEPT ![c] = error]
  /\ onlyRetryable' = [onlyRetryable EXCEPT ![c] = @ /\ wrapError(error).isRetryable]
  /\ IF soFar[c] < RetryCount
     THEN /\ soFar' = [soFar EXCEPT ![c] = @ + 1]
          /\ UNCHANGED <<rpc, providerOut, lastError>>
     ELSE /\ rpc' = [rpc EXCEPT ![c] = "logPlantFail"]
          /\ providerOut' = [providerOut EXCEPT ![c] = wrapError(error)]
          /\ lastError' = [lastError EXCEPT ![c] = wrapError(error)]
          /\ UNCHANGED soFar
  /\ UNCHANGED <<pc, userId, upc, attemptedProviders, routerOut, photoUrls, existing,
                 response, logErrors, species, usageLogs, entryVars, bucketVars, speciesError>>
  /\ UNCHANGED <<gardenVars, accountVars>>

\* One request ends in a 200 response: mapIdentificationResponse maps it, or
\* throws NO_MATCH when there is no suggestion.
PlantIdRespond(c, suggestions) ==
  /\ rpc[c] = "plantid"
  /\ attempts' = [attempts EXCEPT ![c] = @ + 1]
  /\ IF suggestions = <<>>
     THEN /\ rpc' = [rpc EXCEPT ![c] = "logPlantFail"]
          /\ providerOut' = [providerOut EXCEPT ![c] = PlantIdError("NO_MATCH", FALSE)]
          /\ lastError' = [lastError EXCEPT ![c] = PlantIdError("NO_MATCH", FALSE)]
          /\ onlyRetryable' = [onlyRetryable EXCEPT ![c] = FALSE]
     ELSE /\ rpc' = [rpc EXCEPT ![c] = "logPlantOk"]
          /\ providerOut' = [providerOut EXCEPT ![c] = mapIdentificationResponse(suggestions)]
          /\ UNCHANGED <<lastError, onlyRetryable>>
  /\ lastRaw' = [lastRaw EXCEPT ![c] = Nil]
  /\ UNCHANGED <<pc, userId, upc, soFar, attemptedProviders, routerOut,
                 photoUrls, existing, response, logErrors, species, usageLogs, entryVars, bucketVars, speciesError>>
  /\ UNCHANGED <<gardenVars, accountVars>>

\* --------------------------------------------------------- Gemini gateway
\* generateContent is called once; a thrown error is wrapped and rethrown.
GeminiFail(c, error) ==
  /\ rpc[c] = "gemini"
  /\ attempts' = [attempts EXCEPT ![c] = @ + 1]
  /\ lastRaw' = [lastRaw EXCEPT ![c] = error]
  /\ onlyRetryable' = [onlyRetryable EXCEPT ![c] = @ /\ geminiWrapError(error).isRetryable]
  /\ rpc' = [rpc EXCEPT ![c] = "logGeminiFail"]
  /\ providerOut' = [providerOut EXCEPT ![c] = geminiWrapError(error)]
  /\ lastError' = [lastError EXCEPT ![c] = geminiWrapError(error)]
  /\ UNCHANGED <<pc, userId, upc, soFar, attemptedProviders, routerOut, photoUrls,
                 existing, response, logErrors, species, usageLogs, entryVars, bucketVars, speciesError>>
  /\ UNCHANGED <<gardenVars, accountVars>>

GeminiRespond(c, text) ==
  /\ rpc[c] = "gemini"
  /\ attempts' = [attempts EXCEPT ![c] = @ + 1]
  /\ rpc' = [rpc EXCEPT ![c] = "logGeminiOk"]
  /\ providerOut' = [providerOut EXCEPT ![c] = parseResponse(text)]
  /\ UNCHANGED <<pc, userId, upc, soFar, lastRaw, onlyRetryable, attemptedProviders,
                 lastError, routerOut, photoUrls, existing, response, logErrors, species,
                 usageLogs, entryVars, bucketVars, speciesError>>
  /\ UNCHANGED <<gardenVars, accountVars>>

\* ----------------------------------------------------------------- Router
\* AIRouterService.logUsage: the insert is tried once; a failure is logged
\* and swallowed.
logUsage(c, row, dbOk) ==
  IF dbOk
  THEN /\ usageLogs' = usageLogs (+) SetToBag({row})
       /\ UNCHANGED logErrors
  ELSE /\ logErrors' = [logErrors EXCEPT ![c] = @ + 1]
       /\ UNCHANGED usageLogs

resetGateway(c) ==
  /\ soFar' = [soFar EXCEPT ![c] = 0]
  /\ attempts' = [attempts EXCEPT ![c] = 0]
  /\ lastRaw' = [lastRaw EXCEPT ![c] = Nil]
  /\ onlyRetryable' = [onlyRetryable EXCEPT ![c] = TRUE]
  /\ providerOut' = [providerOut EXCEPT ![c] = Nil]

\* mutant: a failed insert after a Plant.id success escapes logUsage, lands in
\* the catch of identifyPlant() and sends the Router on to Gemini
RouterAfterPlantIdLogThrows(c, dbOk) ==
  /\ rpc[c] \in {"logPlantOk", "logPlantFail"}
  /\ IF rpc[c] = "logPlantOk" /\ dbOk
     THEN /\ logUsage(c, UsageRow(userId[c], "identification", "plant-id", TRUE, NULL), dbOk)
          /\ routerOut' = [routerOut EXCEPT ![c] = mapPlantIdResult(providerOut[c])]
          /\ rpc' = [rpc EXCEPT ![c] = "returned"]
          /\ UNCHANGED attemptedProviders
     ELSE /\ logUsage(c, UsageRow(userId[c], "identification", "plant-id", FALSE,
                               NULL), dbOk)
          /\ attemptedProviders' = [attemptedProviders EXCEPT ![c] = Append(@, Chain[2])]
          /\ rpc' = [rpc EXCEPT ![c] = "gemini"]
          /\ UNCHANGED routerOut
  /\ resetGateway(c)
  /\ UNCHANGED <<pc, userId, upc, lastError, photoUrls, existing, response, species, entryVars, bucketVars,
                 speciesError>>
  /\ UNCHANGED <<gardenVars, accountVars>>

\* identifyPlant() after plantIdProvider.identify settled: log the attempt,
\* then return the mapped result or go on to Gemini.
RouterAfterPlantId(c, dbOk) ==
  /\ rpc[c] \in {"logPlantOk", "logPlantFail"}
  /\ IF rpc[c] = "logPlantOk"
     THEN /\ logUsage(c, UsageRow(userId[c], "identification", "plant-id", TRUE, NULL), dbOk)
          /\ routerOut' = [routerOut EXCEPT ![c] = mapPlantIdResult(providerOut[c])]
          /\ rpc' = [rpc EXCEPT ![c] = "returned"]
          /\ UNCHANGED attemptedProviders
     ELSE /\ logUsage(c, UsageRow(userId[c], "identification", "plant-id", FALSE,
                               providerOut[c].code), dbOk)
          /\ attemptedProviders' = [attemptedProviders EXCEPT ![c] = Append(@, Chain[2])]
          /\ rpc' = [rpc EXCEPT ![c] = "gemini"]
          /\ UNCHANGED routerOut
  /\ resetGateway(c)
  /\ UNCHANGED <<pc, userId, upc, lastError, photoUrls, existing, response, species, entryVars, bucketVars,
                 speciesError>>
  /\ UNCHANGED <<gardenVars, accountVars>>

\* identifyPlant() after geminiProvider.identifyPlant settled: log the
\* attempt, then return the mapped result or throw AIRouterError.
RouterAfterGemini(c, dbOk) ==
  /\ rpc[c] \in {"logGeminiOk", "logGeminiFail"}
  /\ IF rpc[c] = "logGeminiOk"
     THEN /\ logUsage(c, UsageRow(userId[c], "identification", "gemini", TRUE, NULL), dbOk)
          /\ routerOut' = [routerOut EXCEPT ![c] = mapGeminiResult(providerOut[c])]
          /\ rpc' = [rpc EXCEPT ![c] = "returned"]
     ELSE /\ logUsage(c, UsageRow(userId[c], "identification", "gemini", FALSE,
                               providerOut[c].code), dbOk)
          /\ routerOut' = [routerOut EXCEPT ![c] =
                             AIRouterError(attemptedProviders[c], lastError[c])]
          /\ rpc' = [rpc EXCEPT ![c] = "threw"]
  /\ resetGateway(c)
  /\ UNCHANGED <<pc, userId, upc, attemptedProviders, lastError, photoUrls, existing,
                 response, species, entryVars, bucketVars,
                 speciesError>>
  /\ UNCHANGED <<gardenVars, accountVars>>

\* ----------------------------------------------------------------- upload
\* uploadImages() as identify() sees it: the two uploads and the signing
\* either all succeed or the catch returns empty URLs.  The bucket is not
\* followed here; the steps below follow it.
UploadImages(c, ok) ==
  /\ upc[c] = "uploading"
  /\ upc' = [upc EXCEPT ![c] = "done"]
  /\ photoUrls' = [photoUrls EXCEPT ![c] =
                     IF ok THEN [url |-> "signed", thumbnailUrl |-> "signed"]
                     ELSE [url |-> "", thumbnailUrl |-> ""]]
  /\ UNCHANGED <<pc, userId, rpc, gatewayVars, attemptedProviders, lastError, routerOut,
                 existing, response, logErrors, species, usageLogs, entryVars,
                 bucketVars, speciesError>>
  /\ UNCHANGED <<gardenVars, accountVars>>

\* mutant: the catch keeps the URL it already has
uploadCatchKeepsUrl(c, request) ==
  /\ uploadError' = [uploadError EXCEPT ![c] = request]
  /\ photoUrls' = [photoUrls EXCEPT ![c] =
                     [url |-> IF request \in {"upload", "sign"} THEN "" ELSE "signed",
                      thumbnailUrl |-> ""]]
  /\ upc' = [upc EXCEPT ![c] = "done"]

\* the catch of uploadImages(): whichever request threw, both URLs are ''
uploadCatch(c, request) ==
  /\ uploadError' = [uploadError EXCEPT ![c] = request]
  /\ photoUrls' = [photoUrls EXCEPT ![c] = [url |-> "", thumbnailUrl |-> ""]]
  /\ upc' = [upc EXCEPT ![c] = "done"]

\* uploadPhoto() of the original: storage.upload(filename, buffer,
\* { upsert: false }) answers; a key the bucket already holds is an error.
PutOriginal(c, ok) ==
  /\ upc[c] = "uploading"
  /\ IF ok /\ filename[c] \notin storage
     THEN /\ storage' = storage \cup {filename[c]}
          /\ upc' = [upc EXCEPT ![c] = "signing"]
          /\ UNCHANGED <<uploadError, photoUrls>>
     ELSE /\ uploadCatch(c, "upload")
          /\ UNCHANGED storage
  /\ UNCHANGED <<pc, userId, rpc, gatewayVars, attemptedProviders, lastError, routerOut,
                 existing, response, logErrors, species, usageLogs, entryVars,
                 now, tempId, filename, speciesError>>
  /\ UNCHANGED <<gardenVars, accountVars>>

\* getSignedUrl() of the original answers; on success generateThumbnail()
\* starts
SignOriginal(c, ok) ==
  /\ upc[c] = "signing"
  /\ IF ok
     THEN /\ upc' = [upc EXCEPT ![c] = "thumbnail"]
          /\ UNCHANGED <<uploadError, photoUrls>>
     ELSE uploadCatch(c, "sign")
  /\ UNCHANGED <<pc, userId, rpc, gatewayVars, attemptedProviders, lastError, routerOut,
                 existing, response, logErrors, species, usageLogs, entryVars,
                 now, tempId, filename, storage, speciesError>>
  /\ UNCHANGED <<gardenVars, accountVars>>

\* generateThumbnail() settles, with the thumbnail or with the original, and
\* uploadPhoto() reads the clock for the second filename.  Two round trips to
\* the storage service lie behind: the clock has moved on since tempId.
GenerateThumbnail(c) ==
  /\ upc[c] = "thumbnail"
  /\ now > tempId[c]
  /\ filename' = [filename EXCEPT ![c] = Filename(userId[c], tempId[c], now)]
  /\ upc' = [upc EXCEPT ![c] = "uploadingThumbnail"]
  /\ UNCHANGED <<pc, userId, rpc, gatewayVars, attemptedProviders, lastError, routerOut,
                 photoUrls, existing, response, logErrors, species, usageLogs,
                 entryVars, now, tempId, storage, uploadError, speciesError>>
  /\ UNCHANGED <<gardenVars, accountVars>>

\* uploadPhoto() of the thumbnail: storage.upload answers
PutThumbnail(c, ok) ==
  /\ upc[c] = "uploadingThumbnail"
  /\ IF ok /\ filename[c] \notin storage
     THEN /\ storage' = storage \cup {filename[c]}
          /\ upc' = [upc EXCEPT ![c] = "signingThumbnail"]
          /\ UNCHANGED <<uploadError, photoUrls>>
     ELSE /\ uploadCatch(c, "uploadThumbnail")
          /\ UNCHANGED storage
  /\ UNCHANGED <<pc, userId, rpc, gatewayVars, attemptedProviders, lastError, routerOut,
                 existing, response, logErrors, species, usageLogs, entryVars,
                 now, tempId, filename, speciesError>>
  /\ UNCHANGED <<gardenVars, accountVars>>

\* getSignedUrl() of the thumbnail answers; on success uploadImages() returns
\* both URLs
SignThumbnail(c, ok) ==
  /\ upc[c] = "signingThumbnail"
  /\ IF ok
     THEN /\ photoUrls' = [photoUrls EXCEPT ![c] =
                             [url |-> "signed", thumbnailUrl |-> "signed"]]
          /\ upc' = [upc EXCEPT ![c] = "done"]
          /\ UNCHANGED uploadError
     ELSE uploadCatch(c, "signThumbnail")
  /\ UNCHANGED <<pc, userId, rpc, gatewayVars, attemptedProviders, lastError, routerOut,
                 existing, response, logErrors, species, usageLogs, entryVars,
                 now, tempId, filename, storage, speciesError>>
  /\ UNCHANGED <<gardenVars, accountVars>>

\* ---------------------------------------------------- identify(): the rest
LOW_CONFIDENCE_THRESHOLD == 70

take5(s) == SubSeq(s, 1, IF Len(s) < 5 THEN Len(s) ELSE 5)

\* mutant: similar species are included at the threshold too
IdentificationResultInclusive(c, speciesId) ==
  [status |-> 200,
   species |-> [id |-> speciesId,
                scientificName |-> routerOut[c].species.scientificName,
                commonNames |-> routerOut[c].species.commonNames,
                confidence |-> routerOut[c].species.confidence],
   similarSpecies |-> IF routerOut[c].species.confidence <= LOW_CONFIDENCE_THRESHOLD
                      THEN take5(routerOut[c].similarSpecies) ELSE <<>>,
   photo |-> photoUrls[c],
   provider |-> routerOut[c].provider]

\* the object identify() returns
IdentificationResult(c, speciesId) ==
  [status |-> 200,
   species |-> [id |-> speciesId,
                scientificName |-> routerOut[c].species.scientificName,
                commonNames |-> routerOut[c].species.commonNames,
                confidence |-> routerOut[c].species.confidence],
   similarSpecies |-> IF routerOut[c].species.confidence < LOW_CONFIDENCE_THRESHOLD
                      THEN take5(routerOut[c].similarSpecies) ELSE <<>>,
   photo |-> photoUrls[c],
   provider |-> routerOut[c].provider]

\* mutant: the AIRouterError is rethrown as it is
InternalError(error) ==
  [status |-> 500, code |-> "INTERNAL_ERROR",
   attemptedProviders |-> error.attemptedProviders]

ServiceUnavailable(error) ==
  [status |-> 503, code |-> "AI_UNAVAILABLE",
   attemptedProviders |-> error.attemptedProviders]

\* findOrCreateSpecies() returned speciesId: identify() shapes its response
Return(c, speciesId) ==
  /\ response' = [response EXCEPT ![c] = IdentificationResult(c, speciesId)]
  /\ pc' = [pc EXCEPT ![c] = "done"]

\* mutant: the catch of findOrCreateSpecies() rethrows
speciesCatchRethrows(c) ==
  /\ speciesError' = [speciesError EXCEPT ![c] = TRUE]
  /\ response' = [response EXCEPT ![c] = UnhandledError]
  /\ pc' = [pc EXCEPT ![c] = "done"]

\* the catch of findOrCreateSpecies(): the error is logged, null is returned
\* and identify() goes on
speciesCatch(c) ==
  /\ speciesError' = [speciesError EXCEPT ![c] = TRUE]
  /\ Return(c, NullId)

\* runIdentification() rethrows AIRouterError as ServiceUnavailableException;
\* Promise.all rejects at once, whatever the upload is doing.
JoinReject(c) ==
  /\ pc[c] = "joining"
  /\ rpc[c] = "threw"
  /\ response' = [response EXCEPT ![c] = ServiceUnavailable(routerOut[c])]
  /\ pc' = [pc EXCEPT ![c] = "done"]
  /\ UNCHANGED <<userId, rpc, upc, gatewayVars, attemptedProviders, lastError,
                 routerOut, photoUrls, existing, logErrors, species, usageLogs,
                 entryVars, bucketVars, speciesError>>
  /\ UNCHANGED <<gardenVars, accountVars>>

NextId == 1 + Cardinality(species)

\* mutant: the lookup does not wait for the upload
FindFirstEarly(c, dbOk) ==
  /\ pc[c] = "joining"
  /\ rpc[c] = "returned"
  /\ LET normalizedName == normalizeScientificName(routerOut[c].species.scientificName)
         found == { r \in species :
                      toLowerCase(r.scientificName) = toLowerCase(normalizedName) }
     IN  IF ~dbOk
         THEN speciesCatch(c) /\ UNCHANGED existing
         ELSE IF found = {}
         THEN /\ pc' = [pc EXCEPT ![c] = "create"]
              /\ UNCHANGED <<existing, response, speciesError>>
         ELSE \E r \in found :
                IF getSpeciesUpdates(r, speciesData(routerOut[c])) = {}
                THEN Return(c, r.id) /\ UNCHANGED <<existing, speciesError>>
                ELSE /\ existing' = [existing EXCEPT ![c] = r]
                     /\ pc' = [pc EXCEPT ![c] = "update"]
                     /\ UNCHANGED <<response, speciesError>>
  /\ UNCHANGED <<userId, rpc, upc, gatewayVars, attemptedProviders, lastError,
                 routerOut, photoUrls, logErrors, species, usageLogs, entryVars,
                 bucketVars>>
  /\ UNCHANGED <<gardenVars, accountVars>>

\* findOrCreateSpecies(): species.findFirst, equals normalizedName in
\* insensitive mode, once both sub-tasks have settled; a hit with nothing to
\* update returns its id at once.
FindFirst(c, dbOk) ==
  /\ pc[c] = "joining"
  /\ rpc[c] = "returned"
  /\ upc[c] = "done"
  /\ LET normalizedName == normalizeScientificName(routerOut[c].species.scientificName)
         found == { r \in species :
                      toLowerCase(r.scientificName) = toLowerCase(normalizedName) }
     IN  IF ~dbOk
         THEN speciesCatch(c) /\ UNCHANGED existing
         ELSE IF found = {}
         THEN /\ pc' = [pc EXCEPT ![c] = "create"]
              /\ UNCHANGED <<existing, response, speciesError>>
         ELSE \E r \in found :
                IF getSpeciesUpdates(r, speciesData(routerOut[c])) = {}
                THEN Return(c, r.id) /\ UNCHANGED <<existing, speciesError>>
                ELSE /\ existing' = [existing EXCEPT ![c] = r]
                     /\ pc' = [pc EXCEPT ![c] = "update"]
                     /\ UNCHANGED <<response, speciesError>>
  /\ UNCHANGED <<userId, rpc, upc, gatewayVars, attemptedProviders, lastError,
                 routerOut, photoUrls, logErrors, species, usageLogs, entryVars,
                 bucketVars>>
  /\ UNCHANGED <<gardenVars, accountVars>>

\* species.update({ where: { id }, data: updates })
UpdateSpecies(c, dbOk) ==
  /\ pc[c] = "update"
  /\ IF dbOk /\ \E r \in species : r.id = existing[c].id
     THEN /\ species' = { IF r.id = existing[c].id
                          THEN applyUpdates(r, getSpeciesUpdates(existing[c],
                                                  speciesData(routerOut[c])))
                          ELSE r : r \in species }
          /\ Return(c, existing[c].id)
          /\ UNCHANGED speciesError
     ELSE /\ speciesCatch(c)
          /\ UNCHANGED species
  /\ UNCHANGED <<userId, rpc, upc, gatewayVars, attemptedProviders, lastError,
                 routerOut, photoUrls, existing, logErrors, usageLogs, entryVars,
                 bucketVars>>
  /\ UNCHANGED <<gardenVars, accountVars>>

\* mutant: the row is created under the provider's name as it came
CreateSpeciesRawName(c, dbOk) ==
  /\ pc[c] = "create"
  /\ LET rawName == routerOut[c].species.scientificName
     IN  IF dbOk /\ ~\E r \in species : r.scientificName = rawName
         THEN /\ species' = species \cup
                   { SpeciesRow(NextId, rawName, routerOut[c].species.commonNames) }
              /\ Return(c, NextId)
              /\ UNCHANGED speciesError
         ELSE /\ speciesCatch(c)
              /\ UNCHANGED species
  /\ UNCHANGED <<userId, rpc, upc, gatewayVars, attemptedProviders, lastError,
                 routerOut, photoUrls, existing, logErrors, usageLogs, entryVars,
                 bucketVars>>
  /\ UNCHANGED <<gardenVars, accountVars>>

\* mutant: no unique index on species.scientific_name
CreateSpeciesNoIndex(c, dbOk) ==
  /\ pc[c] = "create"
  /\ LET normalizedName == normalizeScientificName(routerOut[c].species.scientificName)
     IN  IF dbOk
         THEN /\ species' = species \cup
                   { SpeciesRow(NextId, normalizedName, routerOut[c].species.commonNames) }
              /\ Return(c, NextId)
              /\ UNCHANGED speciesError
         ELSE /\ speciesCatch(c)
              /\ UNCHANGED species
  /\ UNCHANGED <<userId, rpc, upc, gatewayVars, attemptedProviders, lastError,
                 routerOut, photoUrls, existing, logErrors, usageLogs, entryVars,
                 bucketVars>>
  /\ UNCHANGED <<gardenVars, accountVars>>

\* species.create({ data: { scientificName: normalizedName, ... } }) under the
\* unique index species_scientific_name_key; any error is caught and null
\* returned.
CreateSpecies(c, dbOk) ==
  /\ pc[c] = "create"
  /\ LET normalizedName == normalizeScientificName(routerOut[c].species.scientificName)
     IN  IF dbOk /\ ~\E r \in species : r.scientificName = normalizedName
         THEN /\ species' = species \cup
                   { SpeciesRow(NextId, normalizedName, routerOut[c].species.commonNames) }
              /\ Return(c, NextId)
              /\ UNCHANGED speciesError
         ELSE /\ speciesCatch(c)
              /\ UNCHANGED species
  /\ UNCHANGED <<userId, rpc, upc, gatewayVars, attemptedProviders, lastError,
                 routerOut, photoUrls, existing, logErrors, usageLogs, entryVars,
                 bucketVars>>
  /\ UNCHANGED <<gardenVars, accountVars>>

\* The response has been delivered and both sub-tasks have settled: nothing of
\* the call remains but what it wrote to the tables and to the bucket.
Release(c) ==
  /\ pc[c] = "done"
  /\ upc[c] \in {"none", "done"}
  /\ pc' = [pc EXCEPT ![c] = "closed"]
  /\ userId' = [userId EXCEPT ![c] = NULL]
  /\ rpc' = [rpc EXCEPT ![c] = "none"]
  /\ upc' = [upc EXCEPT ![c] = "none"]
  /\ attemptedProviders' = [attemptedProviders EXCEPT ![c] = <<>>]
  /\ lastError' = [lastError EXCEPT ![c] = Nil]
  /\ routerOut' = [routerOut EXCEPT ![c] = Nil]
  /\ photoUrls' = [photoUrls EXCEPT ![c] = Nil]
  /\ existing' = [existing EXCEPT ![c] = Nil]
  /\ response' = [response EXCEPT ![c] = Nil]
  /\ logErrors' = [logErrors EXCEPT ![c] = 0]
  /\ images' = [images EXCEPT ![c] = <<>>]
  /\ tempId' = [tempId EXCEPT ![c] = 0]
  /\ filename' = [filename EXCEPT ![c] = Nil]
  /\ uploadError' = [uploadError EXCEPT ![c] = "none"]
  /\ speciesError' = [speciesError EXCEPT ![c] = FALSE]
  /\ UNCHANGED <<gatewayVars, species, usageLogs, hits, now, storage>>
  /\ UNCHANGED <<gardenVars, accountVars>>

\* ----------------------------------------------------------- specifications
\* One step of call c, the request and the environment's answers drawn from
\* the given sets; uploadImages() is taken as a whole.
Step(c, callers, imageLists, httpErrors, geminiErrors, ledgerOk) ==
  \/ \E u \in callers, imgs \in imageLists : Identify(c, u, imgs)
  \/ \E e \in httpErrors : PlantIdFail(c, e)
  \/ \E p \in PlantIdPayloads : PlantIdRespond(c, p)
  \/ \E e \in geminiErrors : GeminiFail(c, e)
  \/ \E t \in GeminiTexts : GeminiRespond(c, t)
  \/ \E dbOk \in ledgerOk : RouterAfterPlantId(c, dbOk)
  \/ \E dbOk \in ledgerOk : RouterAfterGemini(c, dbOk)
  \/ \E ok \in BOOLEAN : UploadImages(c, ok)
  \/ JoinReject(c)
  \/ \E dbOk \in BOOLEAN : FindFirst(c, dbOk)
  \/ \E dbOk \in BOOLEAN : UpdateSpecies(c, dbOk)
  \/ \E dbOk \in BOOLEAN : CreateSpecies(c, dbOk)
  \/ Release(c)

InFlight(c) == pc[c] \notin {"idle", "closed"}

\* Calls served one after another, every answer of the environment possible;
\* user names being interchangeable, call 1 is u1's.  The images pass
\* validation.
Next ==
  \E c \in Calls :
    /\ pc[c] = "idle" => \A d \in Calls : ~InFlight(d)
    /\ Step(c, IF c = 1 THEN {"u1"} ELSE Users, {<<Small>>}, HttpErrors, GeminiErrors,
            BOOLEAN)

Spec == Init /\ [][Next]_vars

\* Calls of one user served concurrently; the gateways fail with HTTP 503 or
\* a plain SDK error only, and the ledger writes succeed.
RaceNext ==
  \E c \in Calls :
    Step(c, {"u1"}, {<<Small>>}, {Http503}, {GeminiErrorMsg(FALSE, FALSE)}, {TRUE})

RaceSpec == Init /\ [][RaceNext]_vars

\* One call, every answer of the environment possible.
LiveNext == Step(1, {"u1"}, {<<Small>>}, HttpErrors, GeminiErrors, BOOLEAN)

\* What the scheduling guarantees: the timer of timeout() fires on a request
\* that is still open, the database and the storage service answer, and a
\* continuation that can run does run.  Nothing makes a vendor answer.
LiveFairness ==
  /\ WF_vars(PlantIdFail(1, LocalTimeout))
  /\ WF_vars(\E dbOk \in BOOLEAN : RouterAfterPlantId(1, dbOk))
  /\ WF_vars(\E dbOk \in BOOLEAN : RouterAfterGemini(1, dbOk))
  /\ WF_vars(\E ok \in BOOLEAN : UploadImages(1, ok))
  /\ WF_vars(JoinReject(1))
  /\ WF_vars(\E dbOk \in BOOLEAN : FindFirst(1, dbOk))
  /\ WF_vars(\E dbOk \in BOOLEAN : UpdateSpecies(1, dbOk))
  /\ WF_vars(\E dbOk \in BOOLEAN : CreateSpecies(1, dbOk))
  /\ WF_vars(Release(1))

LiveSpec == Init /\ [][LiveNext]_vars /\ LiveFairness

\* One call, any request body the validation pipe lets through.
SizeNext == Step(1, {"u1"}, ImageLists, HttpErrors, GeminiErrors, BOOLEAN)

SizeSpec == Init /\ [][SizeNext]_vars

\* Calls of one user served concurrently, the upload followed request by
\* request against the bucket while the clock runs; Plant.id answers the
\* first request with a match and the database answers.
UploadNext ==
  \/ Tick
  \/ \E c \in Calls :
       \/ Identify(c, "u1", <<Small>>)
       \/ \E p \in PlantIdPayloads \ {<<>>} : PlantIdRespond(c, p)
       \/ RouterAfterPlantId(c, TRUE)
       \/ \E ok \in BOOLEAN : PutOriginal(c, ok)
       \/ \E ok \in BOOLEAN : SignOriginal(c, ok)
       \/ GenerateThumbnail(c)
       \/ \E ok \in BOOLEAN : PutThumbnail(c, ok)
       \/ \E ok \in BOOLEAN : SignThumbnail(c, ok)
       \/ FindFirst(c, TRUE)
       \/ UpdateSpecies(c, TRUE)
       \/ CreateSpecies(c, TRUE)
       \/ Release(c)

UploadSpec == Init /\ [][UploadNext]_vars

\* config rateLimits.identification.free
IdentificationFreeLimit == 5

\* UsageLogService.getUserUsage(userId, 'month').identifications: the rows of
\* the user with success = true and action 'identification'
getUserUsage(u) ==
  LET counted == { r \in BagToSet(usageLogs) :
                     r.userId = u /\ r.success /\ r.action = "identification" }
      RECURSIVE Sum(_)
      Sum(rows) == IF rows = {} THEN 0
                   ELSE LET r == CHOOSE x \in rows : TRUE
                        IN  CopiesIn(r, usageLogs) + Sum(rows \ {r})
  IN  Sum(counted)

\* the ledger after k successful identifications of u1 this month
PriorRows(k) ==
  IF k = 0 THEN EmptyBag
  ELSE [r \in {UsageRow("u1", "identification", "plant-id", TRUE, NULL)} |-> k]

QuotaInit ==
  /\ InitCalls
  /\ Registered
  /\ species \in {{}, SeedSpecies}
  /\ usageLogs \in { PriorRows(k) : k \in 0..IdentificationFreeLimit }

\* One call of the free-tier user u1 on a ledger that already holds rows.
QuotaNext == Step(1, {"u1"}, {<<Small>>}, HttpErrors, GeminiErrors, BOOLEAN)

QuotaSpec == QuotaInit /\ [][QuotaNext]_vars

\* ThrottlerModule.forRoot: the three named throttlers, ttl in milliseconds
Throttlers ==
  { [name |-> "short", ttl |-> 1000, limit |-> 3],
    [name |-> "medium", ttl |-> 10000, limit |-> 20],
    [name |-> "long", ttl |-> 60000, limit |-> 100] }

\* the requests of user u the guards let through in the last ttl milliseconds
hitsWithin(u, ttl) ==
  Cardinality({ i \in 1..Len(hits[u]) : now - hits[u][i] < ttl })

\* the server takes the next request
Reopen(c) ==
  /\ pc[c] = "closed"
  /\ \A u \in Users : Len(hits[u]) < MaxHits
  /\ pc' = [pc EXCEPT ![c] = "idle"]
  /\ UNCHANGED <<userId, rpc, upc, gatewayVars, attemptedProviders, lastError,
                 routerOut, photoUrls, existing, response, logErrors, species,
                 usageLogs, entryVars, bucketVars, speciesError>>
  /\ UNCHANGED <<gardenVars, accountVars>>

\* Requests of one user served one after another while the clock runs, with a
\* body that passes validation or is too large; Plant.id answers the first
\* request with a match and the database answers.
ThrottleNext ==
  \/ Tick
  \/ \E c \in Calls :
       \/ Reopen(c)
       \/ /\ \A d \in Calls : ~InFlight(d)
          /\ \E imgs \in {<<Small>>, <<TooLarge>>} : Identify(c, "u1", imgs)
       \/ \E p \in PlantIdPayloads \ {<<>>} : PlantIdRespond(c, p)
       \/ RouterAfterPlantId(c, TRUE)
       \/ \E ok \in BOOLEAN : UploadImages(c, ok)
       \/ FindFirst(c, TRUE)
       \/ UpdateSpecies(c, TRUE)
       \/ CreateSpecies(c, TRUE)
       \/ Release(c)

ThrottleSpec == Init /\ [][ThrottleNext]_vars


\* Calls of one user served one after another, the second taken when the first
\* has been answered, and every call kept for comparison with the next;
\* Plant.id answers or refuses the key, Gemini answers, and the database may
\* fail.
ResolveNext ==
  \E c \in Calls :
    /\ pc[c] = "idle" => \A d \in Calls : pc[d] \in {"idle", "done"}
    /\ \/ Identify(c, "u1", <<Small>>)
       \/ PlantIdFail(c, Http401)
       \/ \E p \in PlantIdPayloads : PlantIdRespond(c, p)
       \/ \E t \in GeminiTexts : GeminiRespond(c, t)
       \/ RouterAfterPlantId(c, TRUE)
       \/ RouterAfterGemini(c, TRUE)
       \/ UploadImages(c, TRUE)
       \/ \E dbOk \in BOOLEAN : FindFirst(c, dbOk)
       \/ \E dbOk \in BOOLEAN : UpdateSpecies(c, dbOk)
       \/ \E dbOk \in BOOLEAN : CreateSpecies(c, dbOk)

ResolveSpec == Init /\ [][ResolveNext]_vars
\* ----------------------------------------------------------- PlantsService
\* ids a request can name: the rows of GardenSpecies and one that is no row
SpeciesIds == {1, 2, 3}

CustomNickname == <<"M", "y">>

PhotoUrl == "https://storage/identifications/u1/photo.jpg"

\* the body of POST /plants as validation lets it through; a nickname or a
\* photo URL that is left out is undefined / NULL
CreatePlantDto(speciesId, nickname, identificationPhotoUrl) ==
  [speciesId |-> speciesId, nickname |-> nickname,
   identificationPhotoUrl |-> identificationPhotoUrl]

CreatePlantDtos ==
  { CreatePlantDto(s, n, p) :
      s \in SpeciesIds, n \in {undefined, CustomNickname}, p \in {NULL, PhotoUrl} }

\* the catalogue row and a row an identification has created without common
\* names
GardenSpecies == SeedSpecies \cup { SpeciesRow(2, <<"c">>, <<>>) }

NotFoundException(message) == [status |-> 404, message |-> message]

\* an error no filter maps: Nest answers 500
PrismaError == [status |-> 500, message |-> "Internal server error"]

PlantRow(id, u, speciesId, nickname) ==
  [id |-> id, userId |-> u, speciesId |-> speciesId, nickname |-> nickname]

PlantPhotoRow(plantId, storageUrl) ==
  [plantId |-> plantId, storageUrl |-> storageUrl, type |-> "identification"]

\* uuid_generate_v4(): an id no row has; rows are never deleted
NextPlantId == 1 + Cardinality(plants)

Digits == <<"0", "1", "2", "3", "4", "5", "6", "7", "8", "9">>

\* `${n}` for a number n >= 0
RECURSIVE toString(_)
toString(n) ==
  IF n < 10 THEN <<Digits[n + 1]>>
  ELSE toString(n \div 10) \o <<Digits[(n % 10) + 1]>>

\* PlantsService.generateDefaultNickname, on the table as it is when
\* plant.count runs
generateDefaultNickname(u, sp) ==
  LET commonName == IF sp.commonNames # <<>> /\ sp.commonNames[1] # <<>>
                    THEN sp.commonNames[1] ELSE sp.scientificName
      existingCount == Cardinality({ p \in plants :
                                       p.userId = u /\ p.speciesId = sp.id })
  IN  IF existingCount > 0
      THEN commonName \o <<" ">> \o toString(existingCount + 1)
      ELSE commonName

\* create(): species.findUnique; NotFoundException when there is no such row;
\* a nickname of the request is taken as it is
Create(q, u, dto) ==
  /\ creates[q].pc = "idle"
  /\ LET found == { r \in species : r.id = dto.speciesId }
     IN  IF found = {}
         THEN creates' = [creates EXCEPT ![q] =
                [IdleCreate EXCEPT !.pc = "done", !.userId = u, !.dto = dto,
                                   !.result = NotFoundException("Species not found")]]
         ELSE \E r \in found :
                creates' = [creates EXCEPT ![q] =
                  [IdleCreate EXCEPT
                     !.pc = IF dto.nickname # undefined THEN "transaction" ELSE "count",
                     !.userId = u, !.dto = dto, !.species = r,
                     !.nickname = dto.nickname]]
  /\ UNCHANGED <<plants, plantPhotos, read, accountVars, pipelineVars>>

\* create(): await this.generateDefaultNickname(userId, species)
GenerateDefaultNickname(q) ==
  /\ creates[q].pc = "count"
  /\ creates' = [creates EXCEPT ![q].pc = "transaction",
                                ![q].nickname =
                                  generateDefaultNickname(creates[q].userId,
                                                          creates[q].species)]
  /\ UNCHANGED <<plants, plantPhotos, read, accountVars, pipelineVars>>

\* what create() returns: the plant with its photos
Created(plant, photos) == [status |-> 201, plant |-> plant, photos |-> photos]

\* mutant: the two inserts are made one after the other outside a transaction
TransactionNoRollback(q, plantOk, photoOk) ==
  /\ creates[q].pc = "transaction"
  /\ LET plant == PlantRow(NextPlantId, creates[q].userId, creates[q].dto.speciesId,
                           creates[q].nickname)
         photo == PlantPhotoRow(plant.id, creates[q].dto.identificationPhotoUrl)
     IN  IF ~plantOk
         THEN /\ creates' = [creates EXCEPT ![q].pc = "done", ![q].result = PrismaError]
              /\ UNCHANGED <<plants, plantPhotos>>
         ELSE IF creates[q].dto.identificationPhotoUrl = NULL
         THEN /\ plants' = plants \cup {plant}
              /\ creates' = [creates EXCEPT ![q].pc = "done",
                                            ![q].result = Created(plant, {})]
              /\ UNCHANGED plantPhotos
         ELSE IF photoOk
         THEN /\ plants' = plants \cup {plant}
              /\ plantPhotos' = plantPhotos \cup {photo}
              /\ creates' = [creates EXCEPT ![q].pc = "done",
                                            ![q].result = Created(plant, {photo})]
         ELSE /\ plants' = plants \cup {plant}
              /\ creates' = [creates EXCEPT ![q].pc = "done", ![q].result = PrismaError]
              /\ UNCHANGED plantPhotos
  /\ UNCHANGED <<read, accountVars, pipelineVars>>

\* create(): $transaction(plant.create; plantPhoto.create when the request has
\* an identificationPhotoUrl; plant.findUnique).  The callback's writes are
\* committed together when it returns and rolled back when it throws.
Transaction(q, plantOk, photoOk) ==
  /\ creates[q].pc = "transaction"
  /\ LET plant == PlantRow(NextPlantId, creates[q].userId, creates[q].dto.speciesId,
                           creates[q].nickname)
         photo == PlantPhotoRow(plant.id, creates[q].dto.identificationPhotoUrl)
     IN  IF ~plantOk
         THEN /\ creates' = [creates EXCEPT ![q].pc = "done", ![q].result = PrismaError]
              /\ UNCHANGED <<plants, plantPhotos>>
         ELSE IF creates[q].dto.identificationPhotoUrl = NULL
         THEN /\ plants' = plants \cup {plant}
              /\ creates' = [creates EXCEPT ![q].pc = "done",
                                            ![q].result = Created(plant, {})]
              /\ UNCHANGED plantPhotos
         ELSE IF photoOk
         THEN /\ plants' = plants \cup {plant}
              /\ plantPhotos' = plantPhotos \cup {photo}
              /\ creates' = [creates EXCEPT ![q].pc = "done",
                                            ![q].result = Created(plant, {photo})]
         ELSE /\ creates' = [creates EXCEPT ![q].pc = "done", ![q].result = PrismaError]
              /\ UNCHANGED <<plants, plantPhotos>>
  /\ UNCHANGED <<read, accountVars, pipelineVars>>

\* mutant: the plant is looked up by its id alone
findOneAnyOwner(u, id) ==
  LET found == { p \in plants : p.id = id }
  IN  IF found = {} THEN NotFoundException("Plant not found")
      ELSE [status |-> 200, plant |-> CHOOSE p \in found : TRUE]

\* PlantsService.findOne: plant.findFirst({ where: { id, userId } })
findOne(u, id) ==
  LET found == { p \in plants : p.id = id /\ p.userId = u }
  IN  IF found = {} THEN NotFoundException("Plant not found")
      ELSE [status |-> 200, plant |-> CHOOSE p \in found : TRUE]

\* PlantsService.findAll: plant.findMany({ where: { userId } })
findAll(u) == [status |-> 200, plants |-> { p \in plants : p.userId = u }]

\* ids a GET /plants/:id can name: ids of rows and one that is no row's
PlantIds == 1..(NumCreates + 1)

\* GET /plants/:id
FindOne(u, id, dbOk) ==
  /\ read' = [op |-> "findOne", userId |-> u, id |-> id,
              result |-> IF dbOk THEN findOne(u, id) ELSE PrismaError]
  /\ UNCHANGED <<plants, plantPhotos, creates, accountVars, pipelineVars>>

\* GET /plants
FindAll(u, dbOk) ==
  /\ read' = [op |-> "findAll", userId |-> u, id |-> NullId,
              result |-> IF dbOk THEN findAll(u) ELSE PrismaError]
  /\ UNCHANGED <<plants, plantPhotos, creates, accountVars, pipelineVars>>

\* Requests of the two users against the plants endpoints, served
\* concurrently, on a catalogue of two species; the database may fail.
GardenInit ==
  /\ InitCalls
  /\ Registered
  /\ species = GardenSpecies
  /\ usageLogs = EmptyBag

GardenNext ==
  \/ \E q \in Creates :
       \/ \E u \in Users, dto \in CreatePlantDtos : Create(q, u, dto)
       \/ GenerateDefaultNickname(q)
       \/ \E plantOk, photoOk \in BOOLEAN : Transaction(q, plantOk, photoOk)
  \/ \E u \in Users, id \in PlantIds, dbOk \in BOOLEAN : FindOne(u, id, dbOk)
  \/ \E u \in Users, dbOk \in BOOLEAN : FindAll(u, dbOk)

GardenSpec == GardenInit /\ [][GardenNext]_vars

\* -------------------------------------------------------------- AuthService
UnauthorizedException(message) == [status |-> 401, message |-> message]

\* what signUp() and signIn() return: the user and a session
Session(id, email) == [status |-> 200, user |-> Account(id, email)]

\* signUp(): supabase.auth.signUp.  The provider refuses an email that has an
\* account, and can refuse or fail for reasons of its own; otherwise it
\* creates the account under an id of its choosing.
SignUp(r, email, authOk) ==
  /\ signUps[r].pc = "idle"
  /\ IF authOk /\ ~\E a \in authAccounts : a.email = email
     THEN \E id \in Users \ { a.id : a \in authAccounts } :
            /\ authAccounts' = authAccounts \cup { Account(id, email) }
            /\ signUps' = [signUps EXCEPT ![r] =
                 [IdleSignUp EXCEPT !.pc = "createUser", !.email = email, !.id = id]]
     ELSE /\ signUps' = [signUps EXCEPT ![r] =
               [IdleSignUp EXCEPT !.pc = "done", !.email = email,
                                  !.result = UnauthorizedException("authError")]]
          /\ UNCHANGED authAccounts
  /\ UNCHANGED <<users, signedIn, gardenVars, pipelineVars>>

\* signUp(): prisma.client.user.create({ id: authData.user.id, email, name })
\* under users_pkey and users_email_key; an error of the insert leaves
\* signUp() as it is thrown, and the account stays with the provider.
CreateUser(r, dbOk) ==
  /\ signUps[r].pc = "createUser"
  /\ IF dbOk /\ ~\E u \in users : u.id = signUps[r].id \/ u.email = signUps[r].email
     THEN /\ users' = users \cup { Account(signUps[r].id, signUps[r].email) }
          /\ signUps' = [signUps EXCEPT ![r].pc = "done",
                           ![r].result = Session(signUps[r].id, signUps[r].email)]
     ELSE /\ signUps' = [signUps EXCEPT ![r].pc = "done", ![r].result = PrismaError]
          /\ UNCHANGED users
  /\ UNCHANGED <<authAccounts, signedIn, gardenVars, pipelineVars>>

\* signIn(): supabase.auth.signInWithPassword
SignIn(email, authOk) ==
  /\ signedIn.pc \in {"idle", "done"}
  /\ signedIn' =
       IF authOk /\ \E a \in authAccounts : a.email = email
       THEN [pc |-> "findUnique", email |-> email,
             id |-> (CHOOSE a \in authAccounts : a.email = email).id, result |-> Nil]
       ELSE [pc |-> "done", email |-> email, id |-> NULL,
             result |-> UnauthorizedException("Invalid credentials")]
  /\ UNCHANGED <<authAccounts, users, signUps, gardenVars, pipelineVars>>

\* signIn(): user.findUnique({ where: { id: authData.user.id } })
FindUser(dbOk) ==
  /\ signedIn.pc = "findUnique"
  /\ LET found == { u \in users : u.id = signedIn.id }
     IN  signedIn' =
           [signedIn EXCEPT
              !.pc = "done",
              !.result = IF ~dbOk THEN PrismaError
                         ELSE IF found = {} THEN UnauthorizedException("User not found")
                         ELSE Session(signedIn.id, (CHOOSE u \in found : TRUE).email)]
  /\ UNCHANGED <<authAccounts, users, signUps, gardenVars, pipelineVars>>

\* Sign-up requests served concurrently and sign-in requests one after
\* another, on a provider and a users table that hold no account yet; the
\* provider and the database may fail.
AuthInit ==
  /\ InitCalls
  /\ authAccounts = {}
  /\ users = {}
  /\ species = SeedSpecies
  /\ usageLogs = EmptyBag

AuthNext ==
  \/ \E r \in SignUps :
       \/ \E u \in Users, authOk \in BOOLEAN : SignUp(r, Emails[u], authOk)
       \/ \E dbOk \in BOOLEAN : CreateUser(r, dbOk)
  \/ \E u \in Users, authOk \in BOOLEAN : SignIn(Emails[u], authOk)
  \/ \E dbOk \in BOOLEAN : FindUser(dbOk)

AuthSpec == AuthInit /\ [][AuthNext]_vars
\* ================================================================== claims
sameSpecies(n, m) == normalizeScientificName(n) = normalizeScientificName(m)

Answered(c) == pc[c] = "done" /\ response[c].status = 200

\* C1: the species table never holds two rows whose scientific names are equal
\* after normalisation (lowercased, trimmed, whitespace runs collapsed),
\* whatever calls have run, concurrently or not.
ThmC1_OneRowPerNormalizedName ==
  \A r1 \in species : \A r2 \in species :
    sameSpecies(r1.scientificName, r2.scientificName) => r1 = r2

\* two concurrent calls were answered for differently spelt names of one
\* species, and the row for it was created by one of them
WitC1_SameSpeciesTwice ==
  \E c \in Calls : \E d \in Calls \ {c} :
    /\ Answered(c) /\ Answered(d)
    /\ response[c].species.scientificName # response[d].species.scientificName
    /\ sameSpecies(response[c].species.scientificName, response[d].species.scientificName)
    /\ \E r \in species :
         /\ r.id = response[c].species.id
         /\ r.scientificName = NameAbLower

\* C2: a call whose insert loses the race, the row for its normalised name
\* being already there, answers with the id of that row (so that both calls
\* carry the same non-null species id).
ClaimC2_LoserRereads ==
  [][\A c \in Calls :
       (pc[c] = "create" /\ pc'[c] = "done") =>
         \A r \in species :
           r.scientificName = normalizeScientificName(routerOut[c].species.scientificName)
             => response'[c].species.id = r.id]_vars

\* C3: a Router call that fails carries AIRouterError with the attempted
\* providers in chain order and the error of the last provider as its cause;
\* a Router call that returns carries a complete result; nothing else is ever
\* handed out.
ThmC3_RouterErrorOrWholeResult ==
  \A c \in Calls :
    /\ rpc[c] = "threw" =>
         /\ routerOut[c].name = "AIRouterError"
         /\ routerOut[c].attemptedProviders = <<"plant-id", "gemini">>
         /\ routerOut[c].cause = lastError[c]
         /\ routerOut[c].cause.name = "GeminiError"
    /\ rpc[c] = "returned" =>
         /\ DOMAIN routerOut[c] = {"species", "similarSpecies", "isFallback", "provider"}
         /\ DOMAIN routerOut[c].species = {"scientificName", "commonNames", "confidence"}
    /\ rpc[c] \notin {"threw", "returned"} => routerOut[c] = Nil

\* both providers failed and the Router threw
WitC3_AllProvidersFailed ==
  \E c \in Calls :
    /\ rpc[c] = "threw"
    /\ Len(attemptedProviders[c]) = 2
    /\ lastError[c].name = "GeminiError"

LogStage(c) == rpc[c] \in {"logPlantOk", "logPlantFail", "logGeminiOk", "logGeminiFail"}

LogStep(c) == LogStage(c) /\ rpc'[c] # rpc[c]

LoggedProvider(c) == IF rpc[c] \in {"logPlantOk", "logPlantFail"} THEN "plant-id" ELSE "gemini"

RowOfAttempt(row, c) ==
  /\ row.userId = userId[c]
  /\ row.action = "identification"
  /\ row.provider = LoggedProvider(c)
  /\ row.success = (rpc[c] \in {"logPlantOk", "logGeminiOk"})

OneRowWritten(c) ==
  \E row \in BagToSet(usageLogs') :
    /\ RowOfAttempt(row, c)
    /\ usageLogs' = usageLogs (+) SetToBag({row})

\* C5 as stated: every provider attempt of a call writes exactly one row with
\* the call's user id, action 'identification' and the provider's name.
ClaimC5_ExactlyOneRow ==
  [][\A c \in Calls : LogStep(c) => OneRowWritten(c)]_vars

\* C5 as amended: every provider attempt of a call writes exactly one such
\* row, or none when the insert fails and the failure goes to the logger;
\* no other step writes to the ledger.
ThmC5_OneRowUnlessInsertFails ==
  [][/\ \A c \in Calls :
          LogStep(c) =>
            \/ OneRowWritten(c) /\ logErrors'[c] = logErrors[c]
            \/ usageLogs' = usageLogs /\ logErrors'[c] = logErrors[c] + 1
     /\ (\A c \in Calls : ~LogStep(c)) => usageLogs' = usageLogs]_vars

\* a call has logged its failed Plant.id attempt and moved on to Gemini
WitC5_AttemptLogged ==
  \E c \in Calls :
    /\ rpc[c] = "gemini"
    /\ logErrors[c] = 0
    /\ \E row \in BagToSet(usageLogs) :
         /\ row.userId = userId[c]
         /\ row.provider = "plant-id"
         /\ ~row.success

\* what identifyPlant() goes on to when the ledger insert succeeds
OutcomeOnSuccess(c) ==
  CASE rpc[c] = "logPlantOk" -> <<"returned", mapPlantIdResult(providerOut[c])>>
    [] rpc[c] = "logPlantFail" -> <<"gemini", Nil>>
    [] rpc[c] = "logGeminiOk" -> <<"returned", mapGeminiResult(providerOut[c])>>
    [] rpc[c] = "logGeminiFail" ->
         <<"threw", AIRouterError(attemptedProviders[c], providerOut[c])>>

\* C6: when a ledger insert fails, the Router goes on exactly as it does when
\* the insert succeeds: same provider result, same fallback, same error.
ThmC6_LogFailureKeepsOutcome ==
  [][\A c \in Calls :
       (LogStage(c) /\ logErrors'[c] > logErrors[c]) =>
         /\ <<rpc'[c], routerOut'[c]>> = OutcomeOnSuccess(c)
         /\ attemptedProviders'[c] =
              IF rpc[c] = "logPlantFail" THEN <<"plant-id", "gemini">>
              ELSE attemptedProviders[c]]_vars

\* the ledger insert failed and the Router returned a result all the same
WitC6_ReturnedAfterLogFailure ==
  \E c \in Calls :
    /\ logErrors[c] > 0
    /\ rpc[c] = "returned"
    /\ routerOut[c].provider = "plant-id"

\* C7: a result the Router returns is marked isFallback exactly when its
\* provider is not the first of the chain, and its provider is the one that
\* was attempted last.
ThmC7_FallbackIffNotFirst ==
  \A c \in Calls :
    rpc[c] = "returned" =>
      /\ routerOut[c].isFallback <=> routerOut[c].provider # Chain[1]
      /\ routerOut[c].provider = attemptedProviders[c][Len(attemptedProviders[c])]

\* the Router returned Gemini's result
WitC7_GeminiResult ==
  \E c \in Calls :
    /\ rpc[c] = "returned"
    /\ routerOut[c].provider = "gemini"
    /\ routerOut[c].isFallback

GaveUp(c) == rpc[c] \in {"logPlantFail", "logGeminiFail"}

\* C8: a provider given up after every one of its requests failed with a
\* retryable error has been sent exactly 3 requests.
ClaimC8_ThreeAttempts ==
  \A c \in Calls :
    (GaveUp(c) /\ onlyRetryable[c]) => attempts[c] = 3

\* C9: after HTTP 401 or 403 no further request is sent to the provider, and
\* the provider is given up with the non-retryable code AUTH_ERROR.
ClaimC9_AuthNotRetried ==
  \A c \in Calls :
    lastRaw[c] \in {Http401, Http403} =>
      /\ rpc[c] = "logPlantFail"
      /\ providerOut[c].code = "AUTH_ERROR"
      /\ ~providerOut[c].isRetryable

\* C10: a provider given up on a local timeout of its last request is given
\* up with the retryable code TIMEOUT.
ClaimC10_TimeoutCode ==
  \A c \in Calls :
    (rpc[c] = "logPlantFail" /\ lastRaw[c] = LocalTimeout) =>
      /\ providerOut[c].code = "TIMEOUT"
      /\ providerOut[c].isRetryable


\* C11: every Router call terminates: a call whose Router sub-task has started
\* eventually has it returned or thrown, each provider attempt being cut off
\* by its per-attempt timeout.  The Gemini request carries no timeout.
ClaimC11_RouterTerminates ==
  \A c \in Calls : (rpc[c] = "plantid") ~> (rpc[c] \in {"returned", "threw"})

\* C12: a free-tier user is let through to the providers only while fewer than
\* 5 successful identifications are on the ledger for the month; with 5 the
\* call is rejected before any provider is called.  No quota is looked up on
\* the way to identify().
ClaimC12_SixthRejected ==
  \A c \in Calls :
    rpc[c] = "plantid" => getUserUsage(userId[c]) < IdentificationFreeLimit

\* C13: whatever the quota, the requests of a user that are let through stay
\* within the three windows: 3 in a second, 20 in 10 s, 100 in 60 s.  The
\* throttlers are configured, but no guard applies them.
ClaimC13_WindowsEnforced ==
  \A u \in Users : \A t \in Throttlers : hitsWithin(u, t.ttl) <= t.limit

\* an upload request of call c is on its way to the bucket
Putting(c) == upc[c] \in {"uploading", "uploadingThumbnail"}

\* C14: no two storage uploads target the same key: the key of an upload on
\* its way is neither in the bucket nor the key of another upload on its way.
\* Two calls of one user that start in the same millisecond build the same key.
ClaimC14_DistinctKeys ==
  \A c \in Calls :
    Putting(c) =>
      /\ filename[c] \notin storage
      /\ \A d \in Calls \ {c} : Putting(d) => filename[d] # filename[c]

\* C15 as stated: a response is there only when the Router sub-task and the
\* upload sub-task have both finished.  Promise.all rejects as soon as the
\* Router has thrown.
ClaimC15_ResponseAfterBoth ==
  \A c \in Calls :
    (pc[c] = "done" /\ rpc[c] # "none") =>
      (rpc[c] \in {"returned", "threw"} /\ upc[c] = "done")

\* C15: a 200 response is there only when the Router sub-task has returned and
\* the upload sub-task has finished, and it carries what the two returned; a
\* 503 response is there only when the Router sub-task has thrown.
ThmC15_SuccessAfterBoth ==
  \A c \in Calls :
    pc[c] = "done" =>
      /\ response[c].status = 200 =>
           /\ rpc[c] = "returned"
           /\ upc[c] = "done"
           /\ response[c].photo = photoUrls[c]
           /\ response[c].photo # Nil
      /\ response[c].status = 503 => rpc[c] = "threw"

WitC15_AnsweredAfterUploadFailed ==
  \E c \in Calls :
    /\ Answered(c)
    /\ rpc[c] = "returned"
    /\ upc[c] = "done"
    /\ response[c].provider = "gemini"
    /\ response[c].photo.url = ""

EmptyUrls == [url |-> "", thumbnailUrl |-> ""]

payload(img) == IF Head(img).data /\ Len(img) >= 2 THEN Tail(img) ELSE img

\* the images of a request whose estimate, ceil(len * 0.75), is above 10 MiB
oversize(imgs) ==
  { i \in 1..Len(imgs) : (3 * length(payload(imgs[i])) + 3) \div 4 > 10485760 }

\* C18: a call with an image whose estimated decoded size is above 10 MiB is
\* rejected with IMAGE_TOO_LARGE and the index of such an image, and no
\* provider call, upload or ledger write is made for it.  A data URI without
\* a comma makes the validation throw a TypeError instead.
ClaimC18_TooLargeRejected ==
  \A c \in Calls :
    (InFlight(c) /\ oversize(images[c]) # {}) =>
      /\ pc[c] = "done"
      /\ response[c].status = 400
      /\ response[c].code = "IMAGE_TOO_LARGE"
      /\ response[c].imageIndex + 1 \in oversize(images[c])
      /\ rpc[c] = "none"
      /\ upc[c] = "none"
      /\ usageLogs = EmptyBag

\* C19: similarSpecies has at most 5 entries and is non-empty only when the
\* top confidence is below 0.70; at 0.70 and above it is empty.
ThmC19_SimilarOnlyBelowThreshold ==
  \A c \in Calls :
    Answered(c) =>
      /\ Len(response[c].similarSpecies) <= 5
      /\ response[c].similarSpecies # <<>> => response[c].species.confidence < 70
      /\ response[c].species.confidence >= 70 => response[c].similarSpecies = <<>>

WitC19_AtThresholdEmpty ==
  \E c \in Calls :
    /\ Answered(c)
    /\ response[c].species.confidence = 70
    /\ routerOut[c].similarSpecies # <<>>
    /\ response[c].similarSpecies = <<>>

\* C20: a 200 response whose top confidence is below 0.7 has a non-empty
\* similarSpecies.  A Gemini result never brings alternatives.
ClaimC20_LowConfidenceHasSimilar ==
  \A c \in Calls :
    (Answered(c) /\ response[c].species.confidence < 70) =>
      response[c].similarSpecies # <<>>

\* C21: every 200 response carries a top species confidence above 0 and at most
\* 1 (100 in hundredths), whichever provider produced it.  A Gemini answer
\* that does not parse, or that has no confidence, is returned with 0.
ClaimC21_ConfidenceInRange ==
  \A c \in Calls :
    Answered(c) =>
      (0 < response[c].species.confidence /\ response[c].species.confidence <= 100)

\* call c is resolving the result that call d, already answered with a
\* species id, has resolved before
ResolvesAgain(c, d) ==
  /\ c # d
  /\ Answered(d)
  /\ response[d].species.id # NullId
  /\ pc[c] \in {"joining", "update", "create"}
  /\ rpc[c] = "returned"
  /\ routerOut[c].species = routerOut[d].species

ClaimC23_ResponseNameNormalized ==
  \A c \in Calls :
    (Answered(c) /\ response[c].species.id # NullId) =>
      /\ response[c].species.scientificName
           = normalizeScientificName(response[c].species.scientificName)
      /\ \E r \in species :
           /\ r.id = response[c].species.id
           /\ r.scientificName = response[c].species.scientificName

\* C23: the scientificName of a response is the provider's name unchanged, and
\* the Species row with the response's species id stores a name that equals,
\* ignoring case, the normalization of that name.
ThmC23_RowNameIsNormalizedResponseName ==
  \A c \in Calls :
    (Answered(c) /\ response[c].species.id # NullId) =>
      /\ response[c].species.scientificName = routerOut[c].species.scientificName
      /\ \E r \in species :
           /\ r.id = response[c].species.id
           /\ toLowerCase(r.scientificName)
                = normalizeScientificName(response[c].species.scientificName)

WitC23_SpacedNameCreated ==
  \E c \in Calls :
    /\ Answered(c)
    /\ response[c].species.id # NullId
    /\ response[c].species.scientificName = NameAbSpaced
    /\ existing[c] = Nil
    /\ \E r \in species :
         r.id = response[c].species.id /\ r.scientificName = NameAbLower

\* C24: normalizeBase64 is idempotent: for every image string x of a request,
\* normalizeBase64(normalizeBase64(x)) = normalizeBase64(x).  What follows the
\* first comma of a data URI can itself start with 'data:', and a data URI
\* without a comma normalizes to undefined, which is no string to normalize.
ClaimC24_NormalizeIdempotent ==
  \A c \in Calls :
    \A i \in 1..Len(images[c]) :
      /\ normalizeBase64(images[c][i]) # undefined
      /\ normalizeBase64(normalizeBase64(images[c][i])) = normalizeBase64(images[c][i])

\* no two names of the list are equal ignoring case
NoCaseDuplicates(names) ==
  \A i, j \in 1..Len(names) :
    toLowerCase(names[i]) = toLowerCase(names[j]) => i = j

\* C26: an enrichment that changes the commonNames of a row whose names were
\* distinct ignoring case keeps the names it had, in order and first, appends
\* the new names, and leaves a list with no two names equal ignoring case.
\* The new names are compared with the names of the row only, never with one
\* another.
ClaimC26_CaseInsensitiveUnion ==
  [][ \A r \in species, s \in species' :
        (r.id = s.id /\ r.commonNames # s.commonNames
           /\ NoCaseDuplicates(r.commonNames)) =>
          /\ Len(s.commonNames) > Len(r.commonNames)
          /\ SubSeq(s.commonNames, 1, Len(r.commonNames)) = r.commonNames
          /\ NoCaseDuplicates(s.commonNames)
    ]_vars

\* call c has enriched the row it found and has been answered with its id
Enriched(c) ==
  /\ Answered(c)
  /\ ~speciesError[c]
  /\ existing[c] # Nil
  /\ response[c].species.id = existing[c].id

\* every name of the list is, ignoring case, a name of the row
NamesStored(names, row) ==
  \A i \in 1..Len(names) :
    \E j \in 1..Len(row.commonNames) :
      toLowerCase(row.commonNames[j]) = toLowerCase(names[i])

\* C29: when two calls have enriched the same row, the row holds the common
\* names of both.  Each update writes the list its call has read plus its own
\* new names, so the later write drops the names of the earlier one.
ClaimC29_NoLostUpdate ==
  \A c, d \in Calls :
    (c # d /\ Enriched(c) /\ Enriched(d) /\ existing[c].id = existing[d].id) =>
      \A r \in species :
        r.id = existing[c].id =>
          /\ NamesStored(routerOut[c].species.commonNames, r)
          /\ NamesStored(routerOut[d].species.commonNames, r)

DefaultNamed(q) ==
  /\ creates[q].pc = "done"
  /\ creates[q].result.status = 201
  /\ creates[q].dto.nickname = undefined

\* C27: two plants of one user and one species that were saved without a
\* nickname get different generated nicknames.  The number in the nickname is
\* the count read before the insert, and two requests can read the same count.
ClaimC27_DefaultNicknamesDistinct ==
  \A q1, q2 \in Creates :
    (q1 # q2 /\ DefaultNamed(q1) /\ DefaultNamed(q2)
       /\ creates[q1].userId = creates[q2].userId
       /\ creates[q1].dto.speciesId = creates[q2].dto.speciesId) =>
      creates[q1].result.plant.nickname # creates[q2].result.plant.nickname

\* C28: the transaction of a create request with an identificationPhotoUrl
\* leaves either both rows, the plant and the photo that refers to it, or
\* neither.
ThmC28_PlantAndPhotoOrNeither ==
  [][ \A q \in Creates :
        (creates[q].pc = "transaction" /\ creates'[q].pc = "done"
           /\ creates[q].dto.identificationPhotoUrl # NULL) =>
          \/ plants' = plants /\ plantPhotos' = plantPhotos
                              /\ creates'[q].result.status = 500
          \/ \E p \in plants' \ plants :
               /\ plants' = plants \cup {p}
               /\ plantPhotos' = plantPhotos \cup
                    { PlantPhotoRow(p.id, creates[q].dto.identificationPhotoUrl) }
               /\ PlantPhotoRow(p.id, creates[q].dto.identificationPhotoUrl)
                    \notin plantPhotos
               /\ creates'[q].result.status = 201
    ]_vars

WitC28_OneCommittedOneRolledBack ==
  \E q1, q2 \in Creates :
    /\ creates[q1].pc = "done" /\ creates[q2].pc = "done"
    /\ creates[q1].dto.identificationPhotoUrl = PhotoUrl
    /\ creates[q2].dto.identificationPhotoUrl = PhotoUrl
    /\ creates[q1].result.status = 201
    /\ creates[q2].result.status = 500
    /\ Cardinality(plants) = 1
    /\ Cardinality(plantPhotos) = 1

\* C30: once every signUp attempt has finished, with success or with failure,
\* the auth provider holds an account for an email exactly when table users
\* holds a row with the account's id and email.  A failed insert of the row
\* leaves the account behind.
ClaimC30_AccountIffUserRow ==
  (\A r \in SignUps : signUps[r].pc \in {"idle", "done"}) => authAccounts = users

====
